---- MODULE Spec2Model ----
(***************************************************************************)
(* telegram-claude: the Claude CLI subprocess wrapper (ClaudeClient) and   *)
(* the Telegram handlers that call it (TelegramClaudeBot).                 *)
(*                                                                         *)
(* Byte strings and texts are sequences of lexemes [c, v]: c is the class  *)
(* of the lexeme (str = a JSON string literal, lit = null/true/false,      *)
(* punct, ws = whitespace, word = any other text, bad = a byte sequence    *)
(* that is not valid UTF-8) and v its text.                                *)
(*                                                                         *)
(* Spec    : the handlers as asyncio coroutines that overlap at their      *)
(*           awaits (at most MaxTasks in progress).                        *)
(* SpecSeq : the same handlers, one update handled at a time.              *)
(* SpecIO  : lines 68-93 of send_message applied to one exited child.      *)
(* SpecCmd : lines 41-55 of send_message applied to one set of arguments.  *)
(* SpecLive: SpecSeq with every started child eventually exiting.          *)
(*                                                                         *)
(* HistoryManager (the SQLite log) is not part of the state: /history and  *)
(* /stats read it and either answer or report its error, and no other      *)
(* handler reads it back.  A reply longer than 4096 characters is sent in  *)
(* chunks; the model keeps one reply per handler.                          *)
(***************************************************************************)
EXTENDS Integers, Sequences, FiniteSets, TLC

\* ------------------------------------------------------------------ bounds
\* Number of Telegram updates the bot handles in one behaviour.
MaxUpdates == 3

\* Number of handler coroutines that may be in progress at once (they overlap
\* at their await points).
MaxTasks == 2

\* ----------------------------------------------------------- configuration
\* config.ADMIN_TELEGRAM_IDS, config.RESTRICTED_USERS (the admin, user 1, is
\* also listed as a restricted user), and user 3, who is in neither.
ADMIN_TELEGRAM_IDS == {1}

RESTRICTED_USERS == (1 :> "alice") @@ (2 :> "bob")

Users == {1, 2, 3}

CLAUDE_BIN_PATH == "claude"

Tok(c, v) == [c |-> c, v |-> v]

\* ------------------------------------------------------- text conversions
\* bytes.decode(): UTF-8, strict; fails on a byte sequence that is not UTF-8.
DecodeOk(bytes) == \A i \in DOMAIN bytes : bytes[i].c # "bad"

RECURSIVE LStrip(_)
LStrip(s) == IF s # << >> /\ Head(s).c = "ws" THEN LStrip(Tail(s)) ELSE s

RECURSIVE RStrip(_)
RStrip(s) ==
    IF s # << >> /\ s[Len(s)].c = "ws" THEN RStrip(SubSeq(s, 1, Len(s) - 1)) ELSE s

\* str.strip()
Strip(s) == RStrip(LStrip(s))

NotWs(t) == t.c # "ws"

IsScalar(t) == t.c \in {"str", "lit"}

P(v) == Tok("punct", v)

JsonError == [kind |-> "error", keys |-> << >>, vals |-> << >>]

\* json.loads() on documents of nesting depth at most one: a scalar, an array
\* of at most one scalar, an object of at most two members.  Whitespace
\* between lexemes is insignificant; everything else is a JSONDecodeError.
json_loads(text) ==
    LET t == SelectSeq(text, NotWs) IN
    IF Len(t) = 1 /\ IsScalar(t[1])
    THEN [kind |-> "scalar", keys |-> << >>, vals |-> <<t[1]>>]
    ELSE IF t = <<P("["), P("]")>>
    THEN [kind |-> "list", keys |-> << >>, vals |-> << >>]
    ELSE IF Len(t) = 3 /\ t[1] = P("[") /\ IsScalar(t[2]) /\ t[3] = P("]")
    THEN [kind |-> "list", keys |-> << >>, vals |-> <<t[2]>>]
    ELSE IF t = <<P("{"), P("}")>>
    THEN [kind |-> "dict", keys |-> << >>, vals |-> << >>]
    ELSE IF /\ Len(t) = 5 /\ t[1] = P("{") /\ t[2].c = "str" /\ t[3] = P(":")
            /\ IsScalar(t[4]) /\ t[5] = P("}")
    THEN [kind |-> "dict", keys |-> <<t[2]>>, vals |-> <<t[4]>>]
    ELSE IF /\ Len(t) = 9 /\ t[1] = P("{") /\ t[2].c = "str" /\ t[3] = P(":")
            /\ IsScalar(t[4]) /\ t[5] = P(",") /\ t[6].c = "str" /\ t[7] = P(":")
            /\ IsScalar(t[8]) /\ t[9] = P("}")
    THEN [kind |-> "dict", keys |-> <<t[2], t[6]>>, vals |-> <<t[4], t[8]>>]
    ELSE JsonError

\* dict.get(key, default): the last member named key wins.
DictGet(d, key, default) ==
    LET hits == {i \in DOMAIN d.keys : d.keys[i].v = key} IN
    IF hits = {} THEN default
    ELSE d.vals[CHOOSE i \in hits : \A j \in hits : j <= i]

\* Python truth value of a decoded scalar.
Truthy(t) == IF t.c = "str" THEN t.v # "" ELSE t.v = "true"

\* The text of a decoded JSON string.
Content(t) == IF t.v = "" THEN << >> ELSE <<Tok("word", t.v)>>

EMPTY_RESPONSE == <<Tok("word", "*(Claude returned an empty response)*")>>

UNABLE_TO_PARSE == <<Tok("word", "*(Unable to parse Claude response)*")>>

CLI_FAILED == Tok("word", "Claude CLI failed: ")

Return(text) == [kind |-> "return", exc |-> "", text |-> text]

Raise(exc, text) == [kind |-> "raise", exc |-> exc, text |-> text]

\* ------------------------------------------- ClaudeClient.send_message, pure
\* Lines 69-72: the child exited with a nonzero code.
ExitError(stderr) ==
    IF ~DecodeOk(stderr) THEN Raise("UnicodeDecodeError", << >>)
    ELSE Raise("RuntimeError", <<CLI_FAILED>> \o Strip(stderr))

\* Mutant of the response parsing: one sentinel serves both fallbacks.
ParseResponseOneSentinel(stdout) ==
    IF ~DecodeOk(stdout) THEN Raise("UnicodeDecodeError", << >>)
    ELSE LET response_data == json_loads(stdout) IN
         IF response_data.kind = "error"
         THEN LET raw_output == Strip(stdout) IN
              Return(IF raw_output # << >> THEN raw_output ELSE EMPTY_RESPONSE)
         ELSE IF response_data.kind # "dict"
         THEN Raise("AttributeError", << >>)
         ELSE LET content == DictGet(response_data, "result", Tok("str", "")) IN
              IF ~Truthy(content) THEN Return(EMPTY_RESPONSE)
              ELSE Return(Content(content))

\* Lines 75-89: the child exited with code zero.  stdout.decode() is inside the
\* try, whose only handler is json.JSONDecodeError.
ParseResponse(stdout) ==
    IF ~DecodeOk(stdout) THEN Raise("UnicodeDecodeError", << >>)
    ELSE LET response_data == json_loads(stdout) IN
         IF response_data.kind = "error"
         THEN LET raw_output == Strip(stdout) IN
              Return(IF raw_output # << >> THEN raw_output ELSE UNABLE_TO_PARSE)
         ELSE IF response_data.kind # "dict"
         THEN Raise("AttributeError", << >>)
         ELSE LET content == DictGet(response_data, "result", Tok("str", "")) IN
              IF ~Truthy(content) THEN Return(EMPTY_RESPONSE)
              ELSE Return(Content(content))

\* Lines 68-89: what send_message does with the exited child.
ProcessResult(returncode, stdout, stderr) ==
    IF returncode # 0 THEN ExitError(stderr) ELSE ParseResponse(stdout)

\* Mutants of the continuity decision: the flag is ignored; the directive is
\* always given.
ContinueIgnoringFlag(use_continue, flag) == use_continue

ContinueAlways(use_continue, flag) == TRUE

\* Line 54: the continuity decision.
EffectiveContinue(use_continue, flag) == use_continue /\ ~flag

\* Mutant of the prompt rewrite: the original message is dropped.
BuildMessagePathOnly(message, image_path) ==
    IF image_path # ""
    THEN <<"Use your Read tool to read the image at this path: ", image_path>>
    ELSE message

\* Lines 41-42: the prompt, rewritten when an image is attached ("" = None).
BuildMessage(message, image_path) ==
    IF image_path # ""
    THEN <<"Use your Read tool to read the image at this path: ", image_path,
           "\n\nThen respond to: ">> \o message
    ELSE message

\* Lines 45-55: the command line; every argument is a sequence of text parts.
BuildCmd(message, image_path, use_continue, flag) ==
    LET cmd == <<<<CLAUDE_BIN_PATH>>, <<"-p">>, BuildMessage(message, image_path),
                 <<"--output-format">>, <<"json">>>> IN
    IF EffectiveContinue(use_continue, flag) THEN Append(cmd, <<"--continue">>) ELSE cmd

\* The command carries the continuity directive (an option after the five
\* fixed arguments).
HasContinue(cmd) == \E i \in DOMAIN cmd : i > 5 /\ cmd[i] = <<"--continue">>

\* ------------------------------------------------ what a child can produce
W(v) == Tok("word", v)

S(v) == Tok("str", v)

SP == Tok("ws", " ")

NL == Tok("ws", "\n")

BAD == Tok("bad", "\\xff")

Stdouts ==
    { <<P("{"), S("result"), P(":"), SP, S("hello"), P("}")>>,
      <<P("{"), S("result"), P(":"), SP, S("hello"), P(","), SP,
        S("session_id"), P(":"), SP, S("abc"), P("}"), NL>>,
      <<P("{"), S("result"), P(":"), SP, S(""), P("}")>>,
      <<P("{"), S("result"), P(":"), SP, Tok("lit", "null"), P("}")>>,
      <<P("{"), S("session_id"), P(":"), SP, S("abc"), P("}")>>,
      <<P("{"), P("}")>>,
      <<P("{"), S("result"), P(":"), SP, S("hello")>>,
      <<W("not"), SP, W("json")>>,
      <<SP, W("not"), SP, W("json"), NL>>,
      << >>,
      <<NL>>,
      <<P("["), P("]")>>,
      <<P("["), S("hello"), P("]")>>,
      <<S("hello")>>,
      <<Tok("lit", "null")>>,
      <<BAD>>,
      <<W("not"), SP, BAD>> }

Stderrs == { << >>, <<W("boom")>>, <<W("boom"), NL>>, <<BAD>> }

Returncodes == {0, 1}

\* What a user can type, and the caption of a photo ("" = no caption).
Prompts == {"hi"}

Captions == {""}

TEMP_PATH == "/tmp/tmp1.jpg"

\* --------------------------------------------------------------- the state
VARIABLES
    cleared,   \* ClaudeClient.cleared
    task,      \* task[i]: a handler coroutine in progress, or a free slot
    nupd,      \* number of updates dispatched so far
    calls,     \* history: the calls made on the ClaudeClient, in order
    owed,      \* history: admins whose /clear was acknowledged and who have
               \* sent no message since
    io         \* a finished child and what send_message made of it

vars == <<cleared, task, nupd, calls, owed, io>>

Tasks == 1..MaxTasks

NoTask ==
    [pc |-> "none", user |-> 0, kind |-> "", path |-> "", cmd |-> << >>,
     afterClear |-> FALSE, launches |-> 0, children |-> 0, exited |-> 0,
     reply |-> "", call |-> 0]

\* The slot a newly dispatched handler runs in.
Free == {i \in Tasks : task[i].pc = "none"}

NewTask == CHOOSE i \in Free : \A j \in Free : i <= j

\* The dispatcher hands one more update to a handler.
Dispatch ==
    /\ nupd < MaxUpdates
    /\ Free # {}
    /\ nupd' = nupd + 1

NoIo == [stage |-> "none", returncode |-> 0, stdout |-> << >>, stderr |-> << >>,
         result |-> Return(<< >>)]

\* TelegramClaudeBot.is_admin
is_admin(user_id) == user_id \in ADMIN_TELEGRAM_IDS

\* TelegramClaudeBot.is_restricted_user
is_restricted_user(user_id) == user_id \in DOMAIN RESTRICTED_USERS

\* ClaudeClient.__init__ and TelegramClaudeBot.__init__: no update handled yet.
Init ==
    /\ cleared = FALSE
    /\ task = [i \in Tasks |-> NoTask]
    /\ nupd = 0
    /\ calls = << >>
    /\ owed = {}
    /\ io = NoIo

\* Mutant of clear_session: the flag is flipped, not set.
ClearSessionToggle(u) ==
    /\ cleared' = ~cleared
    /\ calls' = Append(calls, [op |-> "reset", user |-> u, uc |-> FALSE,
                               cont |-> FALSE])

\* ClaudeClient.clear_session: sets the flag and returns True; it has no await,
\* so it runs to completion inside the caller's step.
ClearSession(u) ==
    /\ cleared' = TRUE
    /\ calls' = Append(calls, [op |-> "reset", user |-> u, uc |-> FALSE,
                               cont |-> FALSE])

\* clear_command up to its await of reply_text.
ClearCommand(u) ==
    /\ Dispatch
    /\ IF ~is_admin(u)
       THEN UNCHANGED <<cleared, task, calls>>
       ELSE /\ ClearSession(u)
            /\ task' = [task EXCEPT ![NewTask] =
                          [NoTask EXCEPT !.pc = "clear_reply", !.user = u,
                                         !.kind = "clear", !.reply = "cleared"]]
    /\ UNCHANGED <<owed, io>>

\* The "session cleared" reply has been delivered; clear_command returns.
ClearReply(t) ==
    /\ task[t].pc = "clear_reply"
    /\ task' = [task EXCEPT ![t] = NoTask]
    /\ owed' = owed \cup {task[t].user}
    /\ UNCHANGED <<cleared, nupd, calls, io>>

\* The attributes TelegramClaudeBot.__init__ sets on the bot (lines 40-42).
BotAttributes == {"admin_ids", "claude", "history"}

\* status_command up to its await of reply_text: a non-admin is ignored; for
\* an admin the status text is built, which reads self.admin_id (line 131),
\* and reading an attribute the object does not have raises AttributeError.
StatusCommand(u) ==
    /\ Dispatch
    /\ IF ~is_admin(u)
       THEN UNCHANGED task
       ELSE task' = [task EXCEPT ![NewTask] =
                       IF "admin_id" \in BotAttributes
                       THEN [NoTask EXCEPT !.pc = "replying", !.kind = "status",
                                           !.reply = "status"]
                       ELSE [NoTask EXCEPT !.pc = "raised", !.kind = "status"]]
    /\ UNCHANGED <<cleared, calls, owed, io>>

\* The exception leaves the handler; the dispatcher logs it, nothing is sent.
HandlerRaised(t) ==
    /\ task[t].pc = "raised"
    /\ task' = [task EXCEPT ![t] = NoTask]
    /\ UNCHANGED <<cleared, nupd, calls, owed, io>>

\* start, help_command, history_command and stats_command up to their await
\* of reply_text: /start answers a non-admin "unauthorized", the others ignore
\* a non-admin; an admin gets the text (history and stats: or the error text
\* when the history store raises).
Commands == {"start", "help", "history", "stats"}

OtherCommand(u, c) ==
    /\ Dispatch
    /\ IF is_admin(u)
       THEN \E ok \in (IF c \in {"history", "stats"} THEN BOOLEAN ELSE {TRUE}) :
              task' = [task EXCEPT ![NewTask] =
                         [NoTask EXCEPT !.pc = "replying", !.kind = c,
                                        !.reply = IF ok THEN "info" ELSE "error_info"]]
       ELSE IF c = "start"
       THEN task' = [task EXCEPT ![NewTask] =
                       [NoTask EXCEPT !.pc = "replying", !.kind = c,
                                      !.reply = "unauthorized"]]
       ELSE UNCHANGED task
    /\ UNCHANGED <<cleared, calls, owed, io>>

\* handle_message up to its first await: the unauthorized reply, or the
\* typing indicator of the receipt path or of the admin path.
HandleMessage(u) ==
    /\ Dispatch
    /\ IF ~is_admin(u) /\ ~is_restricted_user(u)
       THEN /\ task' = [task EXCEPT ![NewTask] =
                          [NoTask EXCEPT !.pc = "replying", !.kind = "text",
                                         !.reply = "unauthorized"]]
            /\ UNCHANGED owed
       ELSE /\ task' = [task EXCEPT ![NewTask] =
                          [NoTask EXCEPT !.pc = "typing", !.user = u, !.kind = "text",
                                         !.path = IF is_restricted_user(u) /\ ~is_admin(u)
                                                  THEN "receipt" ELSE "admin",
                                         !.afterClear = (u \in owed)]]
            /\ owed' = owed \ {u}
    /\ UNCHANGED <<cleared, calls, io>>

\* Mutant of handle_photo: the admin check of lines 329-331 is missing.
HandlePhotoUnchecked(u) ==
    /\ Dispatch
    /\ task' = [task EXCEPT ![NewTask] =
                  [NoTask EXCEPT !.pc = "typing", !.user = u, !.kind = "photo",
                                 !.path = "photo", !.afterClear = (u \in owed)]]
    /\ owed' = owed \ {u}
    /\ UNCHANGED <<cleared, calls, io>>

\* handle_photo up to its first await.
HandlePhoto(u) ==
    /\ Dispatch
    /\ IF ~is_admin(u)
       THEN /\ task' = [task EXCEPT ![NewTask] =
                          [NoTask EXCEPT !.pc = "replying", !.kind = "photo",
                                         !.reply = "unauthorized"]]
            /\ UNCHANGED owed
       ELSE /\ task' = [task EXCEPT ![NewTask] =
                          [NoTask EXCEPT !.pc = "typing", !.user = u, !.kind = "photo",
                                         !.path = "photo", !.afterClear = (u \in owed)]]
            /\ owed' = owed \ {u}
    /\ UNCHANGED <<cleared, calls, io>>

\* The receipt prompt of handle_message, lines 211-226.
ReceiptPrompt(slug, message_text) ==
    <<"You are a receipt processor for a shared household billing system.\n\nUser: ",
      slug, "\nMessage: ", message_text,
      "\n\nTask: ... Create a receipt file in /bills/purchases/", slug, "/ ...">>

\* Mutant of send_message: line 56 is missing, the flag is left as it was.
SendMessageKeepsFlag(t, message, use_continue, image_path) ==
    LET cmd == BuildCmd(message, image_path, use_continue, cleared) IN
    /\ cleared' = cleared
    /\ calls' = Append(calls, [op |-> "send", user |-> task[t].user,
                               uc |-> use_continue, cont |-> HasContinue(cmd)])
    /\ task' = [task EXCEPT ![t] =
                  [@ EXCEPT !.pc = "launching", !.cmd = cmd,
                            !.launches = @ + 1, !.call = Len(calls) + 1]]

\* Mutant of send_message: the flag belongs to the user who set it, and only
\* that user's send reads and clears it.
SendMessagePerUser(t, message, use_continue, image_path) ==
    LET resets == {i \in DOMAIN calls : calls[i].op = "reset"}
        mine == resets # {} /\ calls[CHOOSE i \in resets : \A j \in resets : j <= i].user
                                  = task[t].user
        cmd == BuildCmd(message, image_path, use_continue, cleared /\ mine) IN
    /\ cleared' = IF mine THEN FALSE ELSE cleared
    /\ calls' = Append(calls, [op |-> "send", user |-> task[t].user,
                               uc |-> use_continue, cont |-> HasContinue(cmd)])
    /\ task' = [task EXCEPT ![t] =
                  [@ EXCEPT !.pc = "launching", !.cmd = cmd,
                            !.launches = @ + 1, !.call = Len(calls) + 1]]

\* send_message from its entry to its first await (lines 37-59): the prompt,
\* the command, the continuity decision, the flag cleared, and the coroutine
\* suspended in create_subprocess_exec.
SendMessage(t, message, use_continue, image_path) ==
    LET cmd == BuildCmd(message, image_path, use_continue, cleared) IN
    /\ cleared' = FALSE
    /\ calls' = Append(calls, [op |-> "send", user |-> task[t].user,
                               uc |-> use_continue, cont |-> HasContinue(cmd)])
    /\ task' = [task EXCEPT ![t] =
                  [@ EXCEPT !.pc = "launching", !.cmd = cmd,
                            !.launches = @ + 1, !.call = Len(calls) + 1]]

\* send_action("typing") is done.  handle_message goes on into send_message
\* (line 233 or 277); handle_photo goes on to download the photo.
TypingDone(t) ==
    /\ task[t].pc = "typing"
    /\ IF task[t].kind = "photo"
       THEN /\ task' = [task EXCEPT ![t].pc = "download"]
            /\ UNCHANGED <<cleared, calls>>
       ELSE \E text \in Prompts :
              IF task[t].path = "receipt"
              THEN SendMessage(t, ReceiptPrompt(RESTRICTED_USERS[task[t].user], text),
                               FALSE, "")
              ELSE SendMessage(t, <<text>>, TRUE, "")
    /\ UNCHANGED <<nupd, owed, io>>

\* get_file and download_to_drive are done; handle_photo goes on into
\* send_message (line 345).
DownloadDone(t) ==
    /\ task[t].pc = "download"
    /\ \E caption \in Captions :
         SendMessage(t, <<IF caption # "" THEN caption ELSE "Describe this image">>,
                     TRUE, TEMP_PATH)
    /\ UNCHANGED <<nupd, owed, io>>

\* Everything send_message can make of an exited child.
ChildResults ==
    {ProcessResult(returncode, stdout, stderr) :
        returncode \in Returncodes, stdout \in Stdouts, stderr \in Stderrs}

\* The reply a handler sends once send_message has returned or raised:
\* handle_message lines 233-257 (receipt path) and 277-324 (admin path),
\* handle_photo lines 345-364.
ReplyFor(path, result) ==
    IF result.kind = "return" THEN "response"
    ELSE IF path = "receipt" THEN "error_processing_receipt"
    ELSE IF path = "photo" THEN "error_processing_photo"
    ELSE IF result.exc = "RuntimeError" THEN "error_from_claude"
    ELSE "unexpected_error"

\* send_message returns or raises (lines 72, 82, 84, 89, 91-93) and the handler
\* runs on to its await of reply_text; exits is the number of children that
\* have exited by then.
SendEnds(t, result, exits) ==
    /\ task' = [task EXCEPT ![t] =
                  [@ EXCEPT !.pc = "replying", !.reply = ReplyFor(task[t].path, result),
                            !.user = 0, !.cmd = << >>, !.afterClear = FALSE,
                            !.exited = exits]]
    /\ UNCHANGED calls

\* get_file or download_to_drive raises: handle_photo replies with the error
\* and send_message is never called.
DownloadFail(t) ==
    /\ task[t].pc = "download"
    /\ task' = [task EXCEPT ![t] =
                  [@ EXCEPT !.pc = "replying", !.reply = "error_processing_photo",
                            !.user = 0, !.afterClear = FALSE]]
    /\ UNCHANGED <<cleared, nupd, calls, owed, io>>

\* create_subprocess_exec (lines 59-63) has started the child; send_message
\* is suspended in communicate().
Launch(t) ==
    /\ task[t].pc = "launching"
    /\ task' = [task EXCEPT ![t] = [@ EXCEPT !.pc = "waiting", !.children = @ + 1,
                                          !.afterClear = FALSE]]
    /\ UNCHANGED <<cleared, nupd, calls, owed, io>>

\* create_subprocess_exec raises (binary missing or not executable); the
\* except clause of lines 91-93 logs and re-raises the same exception.
LaunchFail(t) ==
    /\ task[t].pc = "launching"
    /\ \E exc \in {"FileNotFoundError", "PermissionError"} :
         SendEnds(t, Raise(exc, << >>), 0)
    /\ UNCHANGED <<cleared, nupd, owed, io>>

\* Mutant of the exit handling: a nonzero exit starts the child once more.
ChildExitRetry(t) ==
    /\ task[t].pc = "waiting"
    /\ \E result \in ChildResults :
         IF result.exc = "RuntimeError"
         THEN /\ task' = [task EXCEPT ![t] = [@ EXCEPT !.pc = "launching",
                                                       !.launches = @ + 1]]
              /\ UNCHANGED calls
         ELSE SendEnds(t, result, 1)
    /\ UNCHANGED <<cleared, nupd, owed, io>>

\* Mutant of the wait: communicate() is given up on while the child still runs.
ChildExitOrTimeout(t) ==
    /\ task[t].pc = "waiting"
    /\ SendEnds(t, Raise("TimeoutError", << >>), 0)
    /\ UNCHANGED <<cleared, nupd, owed, io>>

\* The child exits; communicate() returns and lines 68-93 run.
ChildExit(t) ==
    /\ task[t].pc = "waiting"
    /\ \E result \in ChildResults : SendEnds(t, result, 1)
    /\ UNCHANGED <<cleared, nupd, owed, io>>

\* reply_text is done and the handler returns.
ReplyDone(t) ==
    /\ task[t].pc = "replying"
    /\ task' = [task EXCEPT ![t] = NoTask]
    /\ UNCHANGED <<cleared, nupd, calls, owed, io>>

Next ==
    \/ \E u \in Users : ClearCommand(u)
    \/ \E u \in Users : StatusCommand(u)
    \/ \E u \in Users, c \in Commands : OtherCommand(u, c)
    \/ \E t \in Tasks : HandlerRaised(t)
    \/ \E u \in Users : HandleMessage(u)
    \/ \E u \in Users : HandlePhoto(u)
    \/ \E t \in Tasks : ClearReply(t)
    \/ \E t \in Tasks : TypingDone(t)
    \/ \E t \in Tasks : DownloadDone(t)
    \/ \E t \in Tasks : DownloadFail(t)
    \/ \E t \in Tasks : Launch(t)
    \/ \E t \in Tasks : LaunchFail(t)
    \/ \E t \in Tasks : ChildExit(t)
    \/ \E t \in Tasks : ReplyDone(t)

Spec == Init /\ [][Next]_vars

\* The same handlers when the dispatcher awaits each handler before it hands
\* out the next update, so that no two handlers overlap.
NoHandlerRunning == \A i \in Tasks : task[i].pc = "none"

NextSeq ==
    \/ NoHandlerRunning /\ \E u \in Users : ClearCommand(u)
    \/ NoHandlerRunning /\ \E u \in Users : StatusCommand(u)
    \/ NoHandlerRunning /\ \E u \in Users, c \in Commands : OtherCommand(u, c)
    \/ \E t \in Tasks : HandlerRaised(t)
    \/ NoHandlerRunning /\ \E u \in Users : HandleMessage(u)
    \/ NoHandlerRunning /\ \E u \in Users : HandlePhoto(u)
    \/ \E t \in Tasks : ClearReply(t)
    \/ \E t \in Tasks : TypingDone(t)
    \/ \E t \in Tasks : DownloadDone(t)
    \/ \E t \in Tasks : DownloadFail(t)
    \/ \E t \in Tasks : Launch(t)
    \/ \E t \in Tasks : LaunchFail(t)
    \/ \E t \in Tasks : ChildExit(t)
    \/ \E t \in Tasks : ReplyDone(t)

SpecSeq == Init /\ [][NextSeq]_vars

\* ---------------------------------------- send_message on one finished child
\* A child that has exited, with whatever it wrote.
InitIO ==
    /\ cleared = FALSE
    /\ task = [i \in Tasks |-> NoTask]
    /\ nupd = 0
    /\ calls = << >>
    /\ owed = {}
    /\ io \in [stage : {"exited"}, returncode : Returncodes, stdout : Stdouts,
               stderr : Stderrs, result : {Return(<< >>)}]

\* Lines 68-93 applied to it.
Process ==
    /\ io.stage = "exited"
    /\ io' = [io EXCEPT !.stage = "done",
                        !.result = ProcessResult(io.returncode, io.stdout, io.stderr)]
    /\ UNCHANGED <<cleared, task, nupd, calls, owed>>

NextIO == Process

SpecIO == InitIO /\ [][NextIO]_vars

\* ---------------------------------------------------------------------------
\* The command line as a function of send_message's arguments and the flag:
\* the arguments are drawn at the start and lines 41-55 applied to them.

\* Prompt texts: a plain message, the empty text, a text that is itself the
\* directive, a text that is itself a path, a receipt prompt, a two-part text.
CmdMessages ==
    {<<"hi">>, << >>, <<"--continue">>, <<TEMP_PATH>>,
     ReceiptPrompt("bob", <<"hi">>), <<"a", "\n\nThen respond to: ">>}

\* Values of image_path: none, the photo handler's file, another file.
CmdPaths == {"", TEMP_PATH, "/tmp/tmp2.jpg"}

InitCmd ==
    /\ cleared = FALSE
    /\ task = [i \in Tasks |-> NoTask]
    /\ nupd = 0
    /\ calls = << >>
    /\ owed = {}
    /\ io \in [stage : {"args"}, message : CmdMessages, image_path : CmdPaths,
               use_continue : BOOLEAN, flag : BOOLEAN, cmd : {<< >>}]

\* Lines 41-55 applied to them.
MakeCmd ==
    /\ io.stage = "args"
    /\ io' = [io EXCEPT !.stage = "built",
                        !.cmd = BuildCmd(io.message, io.image_path,
                                         io.use_continue, io.flag)]
    /\ UNCHANGED <<cleared, task, nupd, calls, owed>>

NextCmd == MakeCmd

SpecCmd == InitCmd /\ [][NextCmd]_vars

\* ---------------------------------------------------------------------------
\* The bot, one update at a time, with a child that eventually exits once
\* it is started, on an event loop that resumes the coroutine waiting in
\* communicate() when it does.

ChildEventuallyExits == \A t \in Tasks : WF_vars(ChildExit(t))

SpecLive == SpecSeq /\ ChildEventuallyExits

\* ------------------------------------------------------------------ claims
\* The step in which task t's send_message returns or raises.
SendReturns(t) ==
    task[t].pc \in {"launching", "waiting"} /\ task'[t].pc = "replying"

\* The step in which task t's send_message makes its continuity decision.
SendDecides(t) ==
    task[t].pc \in {"typing", "download"} /\ task'[t].pc = "launching"

\* reset_continuity() was called after the call numbered n.
ResetAfter(n, log) == \E j \in DOMAIN log : j > n /\ log[j].op = "reset"

\* C1 as stated: whenever a send() returns or raises, the flag is false,
\* under every interleaving of send() and reset_continuity().
C1_FlagFalseAtEveryReturn ==
    [][\A t \in Tasks : SendReturns(t) => ~cleared']_vars

\* C1 as amended: whenever a send() returns or raises, the flag is false
\* unless reset_continuity() was called after that send's continuity decision.
C1_FlagFalseUnlessResetSince ==
    [][\A t \in Tasks :
         SendReturns(t) /\ ~ResetAfter(task[t].call, calls') => ~cleared']_vars

\* A send that was preceded by a reset has ended, no reset has run since its
\* decision, and the flag is false.
C1_Witness ==
    \E t \in Tasks :
        /\ task[t].pc = "replying" /\ task[t].call > 1
        /\ calls[task[t].call - 1].op = "reset"
        /\ ~ResetAfter(task[t].call, calls)
        /\ ~cleared

\* C2: the command of a send() carries the continuity directive exactly when
\* continue_previous is true and the flag is false at the decision; with
\* continue_previous false it never carries it.
C2_DirectiveIffContinueAndNotFlag ==
    [][\A t \in Tasks :
         SendDecides(t) =>
            LET call == calls'[Len(calls')] IN
            /\ call.op = "send"
            /\ HasContinue(task'[t].cmd) <=> (call.uc /\ ~cleared)
            /\ ~call.uc => ~HasContinue(task'[t].cmd)]_vars

\* A send with continue_previous false was decided right after a reset and its
\* command, now handed to the child, has no directive.
C2_Witness ==
    \E t \in Tasks :
        /\ task[t].pc = "waiting" /\ task[t].call > 1
        /\ calls[task[t].call - 1].op = "reset"
        /\ ~calls[task[t].call].uc
        /\ ~HasContinue(task[t].cmd)

\* C3: when reset_continuity() is followed by send(continue_previous=True),
\* that send omits the directive, and a send(continue_previous=True) that
\* follows it with no reset in between includes the directive.
C3_OneShotSuppression ==
    \A i \in DOMAIN calls :
        (/\ calls[i].op = "reset" /\ i + 1 <= Len(calls)
         /\ calls[i + 1].op = "send" /\ calls[i + 1].uc)
        => /\ ~calls[i + 1].cont
           /\ (i + 2 <= Len(calls) /\ calls[i + 2].op = "send" /\ calls[i + 2].uc)
              => calls[i + 2].cont

\* reset, send, send: the first send has failed (its handler is delivering the
\* error) and the second one carries the directive.
C3_Witness ==
    /\ Len(calls) = 3
    /\ calls[1].op = "reset"
    /\ calls[2].op = "send" /\ calls[2].uc /\ ~calls[2].cont
    /\ calls[3].op = "send" /\ calls[3].uc /\ calls[3].cont
    /\ \E a \in Tasks : /\ task[a].call = 2 /\ task[a].pc = "replying"
                        /\ task[a].reply # "response"
    /\ \E b \in Tasks : task[b].call = 3 /\ task[b].pc = "waiting"

\* C4 as stated: the first message a user sends after the acknowledgement of
\* their /clear goes to the CLI without the continuity directive.
C4_NextMessageStartsFresh ==
    \A t \in Tasks :
        task[t].pc = "launching" /\ task[t].afterClear => ~HasContinue(task[t].cmd)

\* C5: the flag is one value for all users: when user A's reset is followed by
\* a send of another user B and then by A's send(continue_previous=True), B's
\* send omits the directive and A's send includes it.
C5_FlagSharedAcrossUsers ==
    \A i \in DOMAIN calls :
        (/\ calls[i].op = "reset" /\ i + 2 <= Len(calls)
         /\ calls[i + 1].op = "send" /\ calls[i + 1].user # calls[i].user
         /\ calls[i + 2].op = "send" /\ calls[i + 2].user = calls[i].user
         /\ calls[i + 2].uc)
        => ~calls[i + 1].cont /\ calls[i + 2].cont

\* User 1 reset, user 2's send consumed the flag, user 1's own send carries
\* the directive.
C5_Witness ==
    /\ Len(calls) = 3
    /\ calls[1].op = "reset" /\ calls[1].user = 1
    /\ calls[2].op = "send" /\ calls[2].user = 2 /\ ~calls[2].cont
    /\ calls[3].op = "send" /\ calls[3].user = 1 /\ calls[3].uc /\ calls[3].cont
    /\ ~cleared

\* C6: a send() calls the launch exactly once; while it waits and when it ends
\* after the child has exited (success, nonzero exit, unparseable output) it
\* has started exactly one child; no outcome leads to a second launch.
C6_ExactlyOneLaunch ==
    /\ [](\A t \in Tasks :
            /\ task[t].pc = "launching" => task[t].launches = 1 /\ task[t].children = 0
            /\ task[t].pc = "waiting" => task[t].launches = 1 /\ task[t].children = 1
            /\ task[t].launches <= 1 /\ task[t].children <= task[t].launches)
    /\ [][\A t \in Tasks :
            SendReturns(t) =>
               /\ task'[t].launches = 1
               /\ task[t].pc = "waiting" => task'[t].children = 1]_vars

\* A send has ended on the nonzero-exit path with one launch and one child.
C6_Witness ==
    \E t \in Tasks :
        /\ task[t].pc = "replying" /\ task[t].reply = "error_from_claude"
        /\ task[t].launches = 1 /\ task[t].children = 1

\* text contains sub as a contiguous part.
Contains(text, sub) ==
    \E i \in 1..(Len(text) + 1) :
        i + Len(sub) - 1 <= Len(text) /\ SubSeq(text, i, i + Len(sub) - 1) = sub

\* C7 as stated: on a nonzero exit send() raises RuntimeError, with the
\* captured stderr text (trimmed) in its message.
C7_NonzeroExitRaisesRuntimeError ==
    (io.stage = "done" /\ io.returncode # 0)
    => /\ io.result.kind = "raise"
       /\ io.result.exc = "RuntimeError"
       /\ Contains(io.result.text, Strip(io.stderr))

\* C8 as stated: when the launch of the child fails, the caller sees the same
\* error kind as for a nonzero exit, and gives the reply it gives for one.
C8_LaunchFailureIsClaudeError ==
    \A t \in Tasks :
        (task[t].pc = "replying" /\ task[t].launches = 1 /\ task[t].children = 0)
        => task[t].reply = ReplyFor(task[t].path, ExitError(<<W("boom")>>))

\* C9 as stated: when the child exits with code zero, send() returns a result
\* and raises nothing, whatever standard output holds.
C9_ZeroExitNeverRaises ==
    (io.stage = "done" /\ io.returncode = 0) => io.result.kind = "return"

\* Standard output is text that is not a JSON document.
TextNotJson(stdout) == DecodeOk(stdout) /\ json_loads(stdout).kind = "error"

\* C10 as stated: on exit zero with standard output that is not valid JSON,
\* send() returns the trimmed text, or, when that is empty, the sentinel it
\* returns for {"result": ""}.
C10_FallbackUsesEmptySentinel ==
    (io.stage = "done" /\ io.returncode = 0 /\ TextNotJson(io.stdout))
    => io.result = Return(IF Strip(io.stdout) # << >> THEN Strip(io.stdout)
                          ELSE ParseResponse(<<P("{"), S("result"), P(":"), S(""),
                                               P("}")>>).text)

\* C10 as amended: on exit zero with standard output that is text but not
\* valid JSON, send() returns the trimmed text, or, when that is empty, the
\* unable-to-parse sentinel, which differs from the empty-response sentinel
\* returned for {"result": ""}.
C10_FallbackUsesParseSentinel ==
    /\ (io.stage = "done" /\ io.returncode = 0 /\ TextNotJson(io.stdout))
       => io.result = Return(IF Strip(io.stdout) # << >> THEN Strip(io.stdout)
                             ELSE UNABLE_TO_PARSE)
    /\ (io.stage = "done" /\ io.returncode = 0
        /\ io.stdout = <<P("{"), S("result"), P(":"), SP, S(""), P("}")>>)
       => io.result = Return(EMPTY_RESPONSE) /\ io.result.text # UNABLE_TO_PARSE

\* Exit zero with nothing but a newline on standard output: the
\* unable-to-parse sentinel came back.
C10_Witness ==
    /\ io.stage = "done" /\ io.returncode = 0
    /\ io.stdout = <<NL>>
    /\ io.result = Return(UNABLE_TO_PARSE)

\* ---------------------------------------------------------------------------
\* A step in which reset_continuity() is called.
ResetStep ==
    Len(calls') = Len(calls) + 1 /\ calls'[Len(calls')].op = "reset"

\* A step in which a send() makes its continuity decision.
SendStep ==
    Len(calls') = Len(calls) + 1 /\ calls'[Len(calls')].op = "send"

\* C11: the flag is the two-state machine: it starts false; a reset makes it
\* true from either state and returns true to its caller (who then sends the
\* "cleared" reply); a send makes it false from either state; no other step
\* of the program changes it.
C11_FlagIsTwoStateMachine ==
    /\ cleared = FALSE
    /\ [][(ResetStep =>
              /\ cleared'
              /\ \E t \in Tasks : /\ task[t].pc = "none"
                                  /\ task'[t].pc = "clear_reply"
                                  /\ task'[t].reply = "cleared")
           /\ (SendStep => ~cleared')
           /\ ((~ResetStep /\ ~SendStep) => cleared' = cleared)]_vars

\* A reset was called in pending-reset, a send has decided in pending-reset,
\* and a handler that calls neither is at work.
C11_Witness ==
    /\ Len(calls) = 3
    /\ calls[1].op = "reset" /\ calls[2].op = "reset" /\ calls[3].op = "send"
    /\ ~cleared
    /\ \E t \in Tasks : task[t].kind = "text" /\ task[t].pc = "launching"

\* Calls i..j of the log are all resets.
AllResets(i, j) == \A k \in i..j : calls[k].op = "reset"

C13_AttachmentKeepsPromptAndDecision ==
    io.stage = "built" =>
        /\ io.cmd[2] = <<"-p">>
        /\ IF io.image_path # ""
           THEN /\ Contains(io.cmd[3], <<io.image_path>>)
                /\ Contains(io.cmd[3], io.message)
           ELSE io.cmd[3] = io.message
        /\ HasContinue(io.cmd)
             = HasContinue(BuildCmd(io.message, "", io.use_continue, io.flag))
        /\ HasContinue(io.cmd) = (io.use_continue /\ ~io.flag)

\* A command built for a call with an attachment, continue_previous=True and
\* the flag set.
C13_Witness ==
    /\ io.stage = "built"
    /\ io.image_path = TEMP_PATH /\ io.message = <<"hi">>
    /\ io.use_continue /\ io.flag /\ Len(io.cmd) = 5

\* C14: a send leaves its wait in communicate() only in a step in which its
\* child has exited, and ends then (no timeout ends it earlier); and when
\* children eventually exit, every waiting send eventually ends.
C14_SendWaitsForChild ==
    /\ [][\A t \in Tasks :
            (task[t].pc = "waiting" /\ task'[t].pc # "waiting")
            => /\ task'[t].pc = "replying"
               /\ task'[t].children = 1 /\ task'[t].exited = 1]_vars
    /\ [](\A t \in Tasks : task[t].exited = 1 => task[t].pc = "replying")
    /\ \A t \in Tasks : (task[t].pc = "waiting") ~> (task[t].pc = "replying")

\* A send has ended after its child exited.
C14_Witness ==
    \E t \in Tasks :
        task[t].pc = "replying" /\ task[t].children = 1 /\ task[t].exited = 1

\* C15: an admin's /status ends with the status reply being sent, not in an
\* error.
C15_StatusRepliesToAdmin ==
    \A t \in Tasks :
        task[t].kind = "status" => task[t].pc = "replying" /\ task[t].reply = "status"

\* C16: the decision reads and clears the flag in one step, so of the sends
\* with continue_previous=True that decide after a reset and before the next
\* one, the one that decides directly after the reset omits the directive
\* and every later one includes it.
C16_OnlyFirstDeciderOmits ==
    /\ [][SendStep => ~cleared']_vars
    /\ [](\A i \in DOMAIN calls : \A j \in DOMAIN calls :
            (/\ i < j /\ calls[i].op = "reset"
             /\ \A k \in (i + 1)..j : calls[k].op = "send" /\ calls[k].uc)
            => (calls[j].cont <=> j > i + 1))

\* After one reset, two sends with continue_previous=True are in flight
\* together; the first decider
\* omitted the directive and the second included it.
C16_Witness ==
    /\ Len(calls) = 3 /\ calls[1].op = "reset"
    /\ calls[2].op = "send" /\ calls[2].uc /\ ~calls[2].cont
    /\ calls[3].op = "send" /\ calls[3].uc /\ calls[3].cont
    /\ \A t \in Tasks : task[t].pc \in {"launching", "waiting"}
    /\ \A t \in Tasks : task[t].cmd # << >>

\* C17: every send is made for an admin or a restricted user, and every
\* photo on its way to a send is an admin's; a handler that answered
\* "unauthorized" launched nothing; a send for a restricted non-admin has
\* continue_previous=False; every reset was called for an admin, and the
\* flag becomes true only in a step that calls a reset.
C17_AuthorizationGatesEffects ==
    /\ [](/\ \A i \in DOMAIN calls :
               /\ is_admin(calls[i].user) \/ is_restricted_user(calls[i].user)
               /\ (calls[i].op = "send" /\ ~is_admin(calls[i].user)) => ~calls[i].uc
               /\ calls[i].op = "reset" => is_admin(calls[i].user)
           /\ \A t \in Tasks :
               /\ (task[t].kind = "photo" /\ task[t].pc # "replying")
                  => is_admin(task[t].user)
               /\ task[t].reply = "unauthorized"
                  => task[t].launches = 0 /\ task[t].children = 0 /\ task[t].call = 0
               /\ task[t].launches > 0
                  => task[t].call \in DOMAIN calls /\ calls[task[t].call].op = "send")
    /\ [][(~cleared /\ cleared') => ResetStep]_vars

\* A stranger's message was answered "unauthorized" with nothing launched
\* while a restricted user's message is at the assistant without the
\* directive, after an admin's reset.
C17_Witness ==
    /\ \E t \in Tasks : task[t].reply = "unauthorized" /\ task[t].launches = 0
    /\ \E t \in Tasks : /\ task[t].pc = "waiting" /\ task[t].user = 2
                        /\ ~calls[task[t].call].uc
    /\ \E i \in DOMAIN calls : calls[i].op = "reset"

====
